---- MODULE Spec2Model ----
(***************************************************************************)
(* Model of vbolib.VboFile: the in-memory table of a .vbo file (sections,  *)
(* header list, column-name list, ordered data mapping) and the column     *)
(* operations of src/vbolib.py, with the compute functions they apply.     *)
(*                                                                         *)
(* Cell values.  The file stores every cell as text; a text is modelled as  *)
(* the sequence of its characters:                                         *)
(*   time                 'HHMMSS.CC'                                      *)
(*   heading, gyro, rotation speed, oversteer                              *)
(*                        a decimal with two digits after the point        *)
(*   avitime, avifileindex                                                 *)
(*                        an integer, zero-filled                          *)
(* lat and long are kept as the numbers they denote, counted in grid steps *)
(* (long is constant in the parsed tables).                                *)
(*                                                                         *)
(* The module-level functions (time codec, zero padding, heading format,   *)
(* bearing, fuel estimate) are also exercised on their own, under          *)
(* FunctionsSpec.                                                          *)
(***************************************************************************)
EXTENDS Integers, Sequences, FiniteSets, TLC

\* ---------------------------------------------------------------- bounds
MaxRows == 2
MaxOps == 2
MaxWindow == 3

\* ------------------------------------------------------- program constants
DefaultHeadingWindow == 5
DefaultRotationWindow == 9
ZeroDtPerSecond == 1000000

TIME == "time"
LAT == "lat"
LONG == "long"
GYRO == "z_rate_of_rotation-gyro"
HEADING == "heading_gps"
ROTATION == "rotation_speed_deg_per_s"
OVERSTEER == "oversteer"
AVIFILEINDEX == "avifileindex"
AVITIME == "avitime"
AVISYNCTIME == "avisynctime"

\* ------------------------------------------------------------ list helpers
Range(s) == {s[i] : i \in DOMAIN s}

\* the list of the values f[1], ..., f[n], each computed once
list(f) == f \o <<>>

Max(a, b) == IF a >= b THEN a ELSE b

Min(a, b) == IF a <= b THEN a ELSE b

\* list.remove(x): deletes the first occurrence of x
ListRemove(s, x) ==
  LET i == CHOOSE j \in DOMAIN s : s[j] = x /\ \A k \in 1..(j - 1) : s[k] # x
  IN  [j \in 1..(Len(s) - 1) |-> IF j < i THEN s[j] ELSE s[j + 1]]

\* ------------------------------------------ the ordered mapping of [data]
\* cols is the sequence of [name, values] entries in insertion order
Keys(cols) == {cols[i].name : i \in DOMAIN cols}

KeyList(cols) == [i \in DOMAIN cols |-> cols[i].name]

IndexOf(cols, k) == CHOOSE i \in DOMAIN cols : cols[i].name = k

Col(cols, k) == cols[IndexOf(cols, k)].values

\* data[k] = v : replaces in place when k exists, appends otherwise
Put(cols, k, v) ==
  IF k \in Keys(cols)
    THEN [cols EXCEPT ![IndexOf(cols, k)] = [name |-> k, values |-> v]]
    ELSE Append(cols, [name |-> k, values |-> v])

\* data.pop(k)
Pop(cols, k) ==
  LET i == IndexOf(cols, k)
  IN  [j \in 1..(Len(cols) - 1) |-> IF j < i THEN cols[j] ELSE cols[j + 1]]

\* len(next(iter(data.values()))) if data else 0
FirstLen(cols) == IF cols = <<>> THEN 0 ELSE Len(cols[1].values)

Table(cols) == [none |-> FALSE, cols |-> cols]

None == [none |-> TRUE, cols |-> <<>>]

\* ------------------------------------------------------------------ texts
\* a text (str) is the sequence of its characters
Digits == <<"0", "1", "2", "3", "4", "5", "6", "7", "8", "9">>

DigitChar(d) == Digits[d + 1]

DigitVal(ch) == CHOOSE d \in 0..9 : Digits[d + 1] = ch

RECURSIVE NatText(_)
NatText(n) == IF n < 10 THEN <<DigitChar(n)>> ELSE Append(NatText(n \div 10), DigitChar(n % 10))

\* str(number) of an int
str(number) == IF number < 0 THEN <<"-">> \o NatText(0 - number) ELSE NatText(number)

\* text.zfill(width): zeros go to the left, after a leading sign; a text of
\* width characters or more is returned as it is
zfill(text, width) ==
  IF Len(text) >= width THEN text
  ELSE IF text # <<>> /\ text[1] \in {"+", "-"}
    THEN <<text[1]>> \o [i \in 1..(width - Len(text)) |-> "0"] \o Tail(text)
    ELSE [i \in 1..(width - Len(text)) |-> "0"] \o text

\* a ljust that fills on the left
ljust_fills_left(text, width, fillchar) == [i \in 1..(width - Len(text)) |-> fillchar] \o text

\* text.ljust(width, fillchar)
ljust(text, width, fillchar) == text \o [i \in 1..(width - Len(text)) |-> fillchar]

\* int(text) for a text of digits
RECURSIVE int(_)
int(text) ==
  IF Len(text) = 1 THEN DigitVal(text[1])
  ELSE int(SubSeq(text, 1, Len(text) - 1)) * 10 + DigitVal(text[Len(text)])

\* text.strip() for texts padded with blanks
RECURSIVE strip(_)
strip(text) ==
  IF text # <<>> /\ text[1] = " " THEN strip(Tail(text))
  ELSE IF text # <<>> /\ text[Len(text)] = " " THEN strip(SubSeq(text, 1, Len(text) - 1))
  ELSE text

\* the position of the first '.' of a text that has one
DotAt(text) == CHOOSE i \in DOMAIN text : text[i] = "." /\ \A j \in 1..(i - 1) : text[j] # "."

\* ------------------------------------------- numbers and their cell texts
\* a float w + (c + r)/100 with 0 <= c < 100 and 0 <= r < 1, where rest tells
\* how r compares with one half: "zero" (r = 0, a number of at most two
\* decimals), "below", "half" or "above"
Float(w, c, rest) == [w |-> w, c |-> c, rest |-> rest]

\* a float with at most two decimals: w + c/100, 0 <= c < 100
Dec(w, c) == Float(w, c, "zero")

Hundredths(d) == d.w * 100 + d.c

DecAdd(a, b) == Dec(a.w + b.w + ((a.c + b.c) \div 100), (a.c + b.c) % 100)

\* the magnitude of w + c/100 as whole units and hundredths
Magnitude(w, c) ==
  IF w >= 0 THEN [whole |-> w, cents |-> c]
  ELSE IF c = 0 THEN [whole |-> 0 - w, cents |-> 0]
  ELSE [whole |-> 0 - w - 1, cents |-> 100 - c]

\* f"{x:0{pad}.2f}" for a float x that rounds to the magnitude whole + cents/100
\* and is negative when neg: sign, integer digits, '.', two digits, zero-filled
\* to pad characters
Text2f(neg, whole, cents, pad) ==
  zfill((IF neg THEN <<"-">> ELSE <<>>) \o NatText(whole) \o <<".">> \o zfill(NatText(cents), 2), pad)

\* the text of the decimal w + c/100 in a field of at least pad characters
Txt(w, c, pad) == Text2f(w < 0, Magnitude(w, c).whole, Magnitude(w, c).cents, pad)

\* float(text) of a text with a '.' and at most two decimals
float(t) ==
  LET neg == t[1] = "-"
      body == IF t[1] \in {"+", "-"} THEN Tail(t) ELSE t
      dot == DotAt(body)
      whole == int(SubSeq(body, 1, dot - 1))
      cents == int(ljust(SubSeq(body, dot + 1, Len(body)), 2, "0"))
  IN  IF ~neg THEN Dec(whole, cents)
      ELSE IF cents = 0 THEN Dec(0 - whole, 0)
      ELSE Dec(0 - whole - 1, 100 - cents)

\* f"{num/den:.2f}" for den # 0: two decimals, ties to even, no minimum width
Fixed2(num, den) ==
  LET n == IF den < 0 THEN 0 - num ELSE num
      d == IF den < 0 THEN 0 - den ELSE den
      w0 == n \div d
      x == (n % d) * 100
      c0 == x \div d
      rem == x % d
      up == (2 * rem > d) \/ (2 * rem = d /\ c0 % 2 = 1)
      c1 == IF up THEN c0 + 1 ELSE c0
  IN  IF c1 = 100 THEN Txt(w0 + 1, 0, 0) ELSE Txt(w0, c1, 0)

\* f"{heading:.2f}": no minimum width
format_heading_unpadded(heading) ==
  LET up == heading.rest = "above" \/ (heading.rest = "half" /\ heading.c % 2 = 1)
      c1 == IF up THEN heading.c + 1 ELSE heading.c
      w == IF c1 = 100 THEN heading.w + 1 ELSE heading.w
      c == IF c1 = 100 THEN 0 ELSE c1
  IN  Text2f(heading.w < 0, Magnitude(w, c).whole, Magnitude(w, c).cents, 0)

\* f"{heading:05.2f}": the value is rounded to the nearest hundredth, ties to
\* the even one, and keeps its sign when it rounds to zero
format_heading(heading) ==
  LET up == heading.rest = "above" \/ (heading.rest = "half" /\ heading.c % 2 = 1)
      c1 == IF up THEN heading.c + 1 ELSE heading.c
      w == IF c1 = 100 THEN heading.w + 1 ELSE heading.w
      c == IF c1 = 100 THEN 0 ELSE c1
  IN  Text2f(heading.w < 0, Magnitude(w, c).whole, Magnitude(w, c).cents, 5)

\* a padding that keeps total_length characters and no more
pad_with_zeros_fixed_width(number, total_length) ==
  SubSeq(zfill(str(number), total_length),
         Len(zfill(str(number), total_length)) - total_length + 1, Len(zfill(str(number), total_length)))

\* str(number).zfill(total_length)
pad_with_zeros(number, total_length) == zfill(str(number), total_length)

\* 'HHMMSS.CC' to milliseconds
hhmmsscc_to_milliseconds(timestr) ==
  LET t == strip(timestr)
      has_dot == "." \in Range(t)
      main == zfill(IF has_dot THEN SubSeq(t, 1, DotAt(t) - 1) ELSE t, 6)
      centis == IF has_dot THEN SubSeq(t, DotAt(t) + 1, Len(t)) ELSE <<"0", "0">>
      hours == int(SubSeq(main, 1, 2))
      minutes == int(SubSeq(main, 3, 4))
      seconds == int(SubSeq(main, 5, 6))
      centiseconds == int(ljust(centis, 2, "0"))
  IN  hours * 3600 * 1000 + minutes * 60 * 1000 + seconds * 1000 + centiseconds * 10

\* ------------------------------------------------------------ the bearing
\* Angles are counted in units of 1/DegreeUnit degree, in a floating-point
\* format of FloatBits significant bits: the integers below 2^FloatBits are
\* floats, then every 2nd, every 4th, ...  360 degrees and every whole degree
\* up to 512 are floats, and so are the fractions of a degree near zero.
DegreeUnit == 4

FloatBits == 9

RECURSIVE Spacing(_)
Spacing(n) == IF n < 2^FloatBits THEN 1 ELSE 2 * Spacing(n \div 2)

\* the float nearest to n >= 0, ties to the even significand
RoundToFloat(n) ==
  LET s == Spacing(n)
      q == n \div s
      r == n % s
  IN  IF 2 * r > s \/ (2 * r = s /\ q % 2 = 1) THEN (q + 1) * s ELSE q * s

Sign(n) == IF n > 0 THEN 1 ELSE IF n < 0 THEN 0 - 1 ELSE 0

\* atan2 with its arguments exchanged
atan2_degrees_exchanged(x, y) ==
  DegreeUnit * (CASE y = 0 /\ x >= 0 -> 0
                  [] y = 0 /\ x < 0 -> 180
                  [] y > 0 -> 90 - 45 * x
                  [] y < 0 -> 0 - (90 - 45 * x))

\* math.degrees(math.atan2(x, y)) for x, y in {-1, 0, 1}: the angle of the
\* point (y, x), 0 for x = 0 and y >= 0 (atan2(0, 0) is 0), 180 for x = 0 and
\* y < 0, positive for x > 0
atan2_degrees(x, y) ==
  DegreeUnit * (CASE x = 0 /\ y >= 0 -> 0
                  [] x = 0 /\ y < 0 -> 180
                  [] x > 0 -> 90 - 45 * y
                  [] x < 0 -> 0 - (90 - 45 * y))

\* the normalisation without the modulo
bearing_without_modulo(degrees) == RoundToFloat(degrees + 360 * DegreeUnit)

\* (degrees + 360.0) % 360.0: the sum is rounded to a float, the modulo of
\* floats is exact
bearing(degrees) == RoundToFloat(degrees + 360 * DegreeUnit) % (360 * DegreeUnit)

\* the bearing between two points of the grid, one step apart at most in each
\* direction, where a step north and a step east have the same length (the
\* equator): x = sin(dlon) * cos(lat2) has the sign of lon2 - lon1 and y the
\* sign of lat2 - lat1
compute_heading(lat1, lon1, lat2, lon2) ==
  LET x == Sign(lon2 - lon1)
      y == Sign(lat2 - lat1)
      b == bearing(atan2_degrees(x, y))
  IN  Dec(b \div DegreeUnit, (b % DegreeUnit) * (100 \div DegreeUnit))

RECURSIVE SumRange(_, _, _)
SumRange(f, lo, hi) == IF lo > hi THEN 0 ELSE f[lo] + SumRange(f, lo + 1, hi)

\* np.convolve(phasors, ones(w)/w, mode='same') for phasors of real part +1 or
\* -1: the full convolution has n + w - 1 entries, of which 'same' keeps the
\* max(n, w) central ones.  Entry i is the window's sum (times 1/w).
np_convolve_same(p, w) ==
  LET n == Len(p)
      m == Min(n, w)
      off == m - (m \div 2) - 1
      full(k) == SumRange(p, Max(0, k - w + 1) + 1, Min(n - 1, k) + 1)
  IN  [i \in 1..Max(n, w) |-> full(i - 1 + off)]

\* a smoothing that always points north
smoothed_heading_north(k) == Dec(0, 0)

\* (degrees(angle(z)) + 360) % 360 of a window sum z: its real part is k/w and
\* its imaginary part the residue of sin(pi) of the southward samples, which
\* decides the angle when the real parts cancel
smoothed_heading(k) ==
  IF k > 0 THEN Dec(0, 0) ELSE IF k < 0 THEN Dec(180, 0) ELSE Dec(90, 0)

\* -------------------------------------------------------------- physics
\* The floats of estimate_instant_fuel_consumption are kept as exact
\* fractions num/den in lowest terms, den > 0.
RECURSIVE GCD(_, _)
GCD(a, b) == IF b = 0 THEN a ELSE GCD(b, a % b)

Abs(n) == IF n < 0 THEN 0 - n ELSE n

Rat(n, d) == [num |-> n \div GCD(Abs(n), d), den |-> d \div GCD(Abs(n), d)]

\* a * b
RatTimes(a, b) ==
  [num |-> (a.num \div GCD(Abs(a.num), b.den)) * (b.num \div GCD(Abs(b.num), a.den)),
   den |-> (a.den \div GCD(Abs(b.num), a.den)) * (b.den \div GCD(Abs(a.num), b.den))]

\* a + b
RatPlus(a, b) == Rat(a.num * b.den + b.num * a.den, a.den * b.den)

\* a / b for b # 0
RatOver(a, b) ==
  RatTimes(a, IF b.num > 0 THEN [num |-> b.den, den |-> b.num]
              ELSE [num |-> 0 - b.den, den |-> 0 - b.num])

\* a < b
RatLess(a, b) == a.num * (b.den \div GCD(a.den, b.den)) < b.num * (a.den \div GCD(a.den, b.den))

\* a function's outcome: the value it returns or the exception it raises
Returns(value) == [exc |-> "", ret |-> value]

Raises(exc) == [exc |-> exc, ret |-> <<>>]

\* a throttle that has no effect on the intake
throttle_ratio_ignored(throttle) == Rat(1, 1)

\* throttle_ratio = throttle / 100
throttle_ratio(throttle) == RatOver(throttle, Rat(100, 1))

\* the lines after the test of rpm
fuel_consumption(rpm, throttle, intake_temp, engine_displacement_cc, ve, lambda_value) ==
  LET standard_air_density == Rat(1225, 1000)
      kelvin_conversion == Rat(27315, 100)
      reference_temp_celsius == Rat(15, 1)
      rpm_to_firings_factor == Rat(120, 1)
      gasoline_density == Rat(745, 1)
      kelvin == RatPlus(kelvin_conversion, intake_temp)
      air_density == RatTimes(standard_air_density,
                              RatOver(RatPlus(reference_temp_celsius, kelvin_conversion), kelvin))
      displacement_liters == RatOver(engine_displacement_cc, Rat(1000, 1))
      total_intake_volume == RatTimes(RatTimes(ve, displacement_liters), throttle_ratio(throttle))
      air_mass_per_rev == RatTimes(total_intake_volume, air_density)
      afr == RatTimes(Rat(147, 10), lambda_value)
      fuel_mass_per_rev == RatOver(air_mass_per_rev, afr)
      fuel_consumption_g_per_sec == RatTimes(fuel_mass_per_rev, RatOver(rpm, rpm_to_firings_factor))
  IN  IF kelvin.num = 0 \/ afr.num = 0 THEN Raises("ZeroDivisionError")
      ELSE Returns(RatTimes(RatOver(fuel_consumption_g_per_sec, gasoline_density), Rat(60, 1)))

\* the function without the test of rpm
estimate_without_rpm_test(rpm, throttle, intake_temp, engine_displacement_cc, ve, lambda_value) ==
  fuel_consumption(rpm, throttle, intake_temp, engine_displacement_cc, ve, lambda_value)

estimate_instant_fuel_consumption(rpm, throttle, intake_temp, engine_displacement_cc, ve, lambda_value) ==
  IF rpm.num = 0 THEN Returns(Rat(0, 1))
  ELSE fuel_consumption(rpm, throttle, intake_temp, engine_displacement_cc, ve, lambda_value)

\* ------------------------------------------- the fuel-consumption average
\* f"{num/den:.4f}" for a value num/den >= 0 counted in ten-thousandths:
\* rounded to a whole number of them, ties to the even one
Fixed4(num, den) ==
  LET q == num \div den
      r == num % den
      v == IF 2 * r > den \/ (2 * r = den /\ q % 2 = 1) THEN q + 1 ELSE q
  IN  NatText(v \div 10000) \o <<".">> \o zfill(NatText(v % 10000), 4)

\* the rows j = i, i-1, ... (counted from 0) whose values the backward scan
\* collects: it stops at row 0 or at the first row whose time is before
\* window_start_time; times in milliseconds
RECURSIVE fuel_consumption_rows(_, _, _)
fuel_consumption_rows(row_times, window_start_time, j) ==
  IF j < 0 THEN <<>>
  ELSE IF row_times[j + 1] < window_start_time THEN <<>>
  ELSE <<j>> \o fuel_consumption_rows(row_times, window_start_time, j - 1)

\* the averaging of compute_fuel_consumption_avg on the series
\* fuel_consumption_inst of instantaneous values (in ten-thousandths, as
\* retained with 4 decimals) and the time column: for every row the pair of
\* the rows whose values are averaged and the text written
compute_fuel_consumption_avg(fuel_consumption_inst, time, time_window_sec) ==
  LET nv == Len(fuel_consumption_inst)
      ms == list([i \in 1..nv |-> hhmmsscc_to_milliseconds(time[i])])
      rows(i) == IF i = 0 THEN <<0>>
                 ELSE fuel_consumption_rows(ms, ms[i + 1] - time_window_sec * 1000, i)
      fuel_consumption_values(i) == [k \in 1..Len(rows(i)) |-> fuel_consumption_inst[rows(i)[k] + 1]]
      avg(i) == IF rows(i) = <<>> THEN Fixed4(0, 1)
                ELSE Fixed4(SumRange(fuel_consumption_values(i), 1, Len(rows(i))), Len(rows(i)))
  IN  list([i \in 1..nv |-> <<rows(i - 1), avg(i - 1)>>])

\* ------------------------------------------------------------------ state
VARIABLES
  sections,      \* the keys of self.sections, in order
  avi,           \* self.sections['[avi]']
  header,        \* self.sections['[header]']
  column_names,  \* self.sections['[column names]']
  data,          \* self.sections['[data]']: Table(cols) or None
  nval,          \* self.nval
  last,          \* the last call: its name, arguments, exception, compute calls
  pre,           \* the table as it was when the last call started
  ops            \* number of calls made

vars == <<sections, avi, header, column_names, data, nval, last, pre, ops>>

\* ------------------------------------------------------ compute functions
\* A compute function mutates the mapping it is given: cols is the mapping
\* when it returns or raises, none tells that it returned None.
Ret(cols) == [exc |-> "", none |-> FALSE, cols |-> cols]

RetNone(cols) == [exc |-> "", none |-> TRUE, cols |-> cols]

Raise(exc, cols) == [exc |-> exc, none |-> FALSE, cols |-> cols]

\* data[k][i - 1] can be read (i counts rows from 1)
Readable(cols, k, i) == k \in Keys(cols) /\ i <= Len(Col(cols, k))

ReadError(cols, k) == IF k \in Keys(cols) THEN "IndexError" ELSE "KeyError"

\* the rows 2..n read rows i - 1 and i of column k: the first row that fails
FirstBad(cols, ks, n) ==
  IF \E i \in 2..n : \E k \in ks : ~Readable(cols, k, i)
    THEN CHOOSE i \in 2..n : /\ \E k \in ks : ~Readable(cols, k, i)
                             /\ \A j \in 2..(i - 1) : \A k \in ks : Readable(cols, k, j)
    ELSE 0

constant_function(cols, data_column_name, constant_value) ==
  Ret(Put(cols, data_column_name, [i \in 1..nval |-> constant_value]))

gps_heading_function(cols, heading_column, lat_column, long_column, smoothing_window) ==
  IF heading_column \in Keys(cols) THEN Ret(cols)
  ELSE IF FirstBad(cols, {lat_column, long_column}, nval) # 0 THEN
    Raise(IF ~Readable(cols, lat_column, FirstBad(cols, {lat_column, long_column}, nval))
            THEN ReadError(cols, lat_column) ELSE ReadError(cols, long_column), cols)
  ELSE
    LET lat == Col(cols, lat_column)
        lon == Col(cols, long_column)
        raw_headings == [i \in 1..nval |->
                           IF i = 1 THEN Dec(0, 0)
                           ELSE compute_heading(lat[i - 1], lon[i - 1], lat[i], lon[i])]
        phasors == [i \in 1..nval |-> IF raw_headings[i] = Dec(180, 0) THEN 0 - 1 ELSE 1]
        smoothed_phasors == IF nval = 0 THEN <<>> ELSE np_convolve_same(phasors, smoothing_window)
        smoothed_headings == [i \in DOMAIN smoothed_phasors |-> smoothed_heading(smoothed_phasors[i])]
    IN  Ret(Put(cols, heading_column, [i \in DOMAIN smoothed_headings |-> format_heading(smoothed_headings[i])]))

\* delta_heading = (curr_heading - prev_heading + 540.0) % 360.0 - 180.0, in
\* hundredths of a degree
delta_heading(prev_heading, curr_heading) == ((curr_heading - prev_heading + 54000) % 36000) - 18000

\* a dt without the substitute for equal times
dt_unguarded(prev_time, curr_time) == (curr_time - prev_time) * 1000

\* dt = curr_time - prev_time if curr_time != prev_time else 1e-6, for times in
\* milliseconds and dt in microseconds
dt(prev_time, curr_time) ==
  IF curr_time # prev_time THEN (curr_time - prev_time) * 1000 ELSE 1000000 \div ZeroDtPerSecond

\* the rows' delta_heading / dt in whole degrees per second, for headings in
\* hundredths of a degree and times in milliseconds; the division is exact
\* for heading steps of 90 degrees and time steps of 1.5 s
raw_rotation_speeds(headings, ms) ==
  LET n == Len(headings)
      d(i) == dt(ms[i - 1], ms[i])
      degrees(i) == delta_heading(headings[i - 1], headings[i]) * 10000
  IN  IF \E i \in 2..n : d(i) = 0 THEN Raises("ZeroDivisionError")
      ELSE Returns(list([i \in 1..n |->
             IF i = 1 THEN 0
             ELSE IF d(i) > 0 THEN degrees(i) \div d(i)
             ELSE (0 - degrees(i)) \div (0 - d(i))]))

\* start = max(0, i - window // 2) for the row i, counted from 0
start(i, window) == Max(0, i - (window \div 2))

\* an end that leaves out the rows after row i
end_before_next(i, n, window) == Min(n, i + 1)

\* end = min(nval, i + window // 2 + 1)
end(i, n, window) == Min(n, i + (window \div 2) + 1)

\* the moving average: sum(raw_rotation_speeds[start:end]) / (end - start) of
\* every row, written with f"{smoothed_val:.2f}"
smoothed(raw, smoothing_window) ==
  LET n == Len(raw)
      window == Max(1, smoothing_window)
      rows(i) == end(i, n, window) - start(i, window)
  IN  IF \E i \in 0..(n - 1) : rows(i) = 0 THEN Raises("ZeroDivisionError")
      ELSE Returns([i \in 1..n |->
             Fixed2(SumRange(raw, start(i - 1, window) + 1, end(i - 1, n, window)), rows(i - 1))])

compute_rotation_speed(cols, rotation_speed_column, heading_column, time_column, smoothing_window) ==
  LET n == FirstLen(cols)
      bad == FirstBad(cols, {heading_column, time_column}, n)
  IN
  IF bad # 0 THEN
    Raise(IF ~Readable(cols, heading_column, bad - 1) \/ ~Readable(cols, heading_column, bad)
            THEN ReadError(cols, heading_column) ELSE ReadError(cols, time_column), cols)
  ELSE
    LET heading == Col(cols, heading_column)
        time == Col(cols, time_column)
        headings == list([i \in 1..n |-> Hundredths(float(heading[i]))])
        ms == list([i \in 1..n |-> hhmmsscc_to_milliseconds(time[i])])
        raw == raw_rotation_speeds(headings, ms)
        mean == smoothed(raw.ret, smoothing_window)
    IN  IF raw.exc # "" THEN Raise(raw.exc, cols)
        ELSE IF mean.exc # "" THEN Raise(mean.exc, cols)
        ELSE Ret(Put(cols, rotation_speed_column, mean.ret))

\* an oversteer whose row 0 is a sum like the others
compute_oversteer_sums_row_0(cols, rotation_speed_column, gyro_z_column, oversteer_column) ==
  LET n == FirstLen(cols)
      rows == [i \in 1..n |->
                 IF Readable(cols, rotation_speed_column, i) /\ Readable(cols, gyro_z_column, i)
                   THEN format_heading(DecAdd(float(Col(cols, rotation_speed_column)[i]),
                                              float(Col(cols, gyro_z_column)[i])))
                   ELSE format_heading(Dec(0, 0))]
      bad == IF \E i \in 2..n : ~Readable(cols, rotation_speed_column, i) \/ ~Readable(cols, gyro_z_column, i)
               THEN CHOOSE i \in 2..n :
                      /\ ~Readable(cols, rotation_speed_column, i) \/ ~Readable(cols, gyro_z_column, i)
                      /\ \A j \in 2..(i - 1) :
                            Readable(cols, rotation_speed_column, j) /\ Readable(cols, gyro_z_column, j)
               ELSE 0
  IN  IF bad # 0
        THEN Raise(IF ~Readable(cols, rotation_speed_column, bad)
                     THEN ReadError(cols, rotation_speed_column) ELSE ReadError(cols, gyro_z_column),
                   Put(cols, oversteer_column, SubSeq(rows, 1, bad - 1)))
        ELSE Ret(Put(cols, oversteer_column, rows))

compute_oversteer(cols, rotation_speed_column, gyro_z_column, oversteer_column) ==
  LET n == FirstLen(cols)
      rows == [i \in 1..n |->
                 IF i = 1 THEN format_heading(Dec(0, 0))
                 ELSE IF Readable(cols, rotation_speed_column, i) /\ Readable(cols, gyro_z_column, i)
                   THEN format_heading(DecAdd(float(Col(cols, rotation_speed_column)[i]),
                                              float(Col(cols, gyro_z_column)[i])))
                   ELSE format_heading(Dec(0, 0))]
      bad == IF \E i \in 2..n : ~Readable(cols, rotation_speed_column, i) \/ ~Readable(cols, gyro_z_column, i)
               THEN CHOOSE i \in 2..n :
                      /\ ~Readable(cols, rotation_speed_column, i) \/ ~Readable(cols, gyro_z_column, i)
                      /\ \A j \in 2..(i - 1) :
                            Readable(cols, rotation_speed_column, j) /\ Readable(cols, gyro_z_column, j)
               ELSE 0
  IN  IF bad # 0
        THEN Raise(IF ~Readable(cols, rotation_speed_column, bad)
                     THEN ReadError(cols, rotation_speed_column) ELSE ReadError(cols, gyro_z_column),
                   Put(cols, oversteer_column, SubSeq(rows, 1, bad - 1)))
        ELSE Ret(Put(cols, oversteer_column, rows))

\* an avitime that holds each row's own delta instead of the running sum
add_avitime_column_restarts(cols, start_sync_time, time_column) ==
  IF AVITIME \in Keys(cols) THEN RetNone(cols)
  ELSE
    LET bad == FirstBad(cols, {time_column}, nval)
        n == IF bad # 0 THEN bad - 1 ELSE nval
        ms(i) == hhmmsscc_to_milliseconds(Col(cols, time_column)[i])
        avitime(i) == IF i = 1 THEN start_sync_time ELSE ms(i) - ms(i - 1)
        column == [i \in 1..n |-> pad_with_zeros(avitime(i), 9)]
    IN  IF bad # 0 THEN Raise(ReadError(cols, time_column), Put(cols, AVITIME, column))
        ELSE Ret(Put(cols, AVITIME, column))

add_avitime_column(cols, start_sync_time, time_column) ==
  IF AVITIME \in Keys(cols) THEN RetNone(cols)
  ELSE
    LET bad == FirstBad(cols, {time_column}, nval)
        n == IF bad # 0 THEN bad - 1 ELSE nval
        ms == list([i \in 1..n |-> hhmmsscc_to_milliseconds(Col(cols, time_column)[i])])
        \* avitime accumulates the deltas of the rows so far
        avitime(i) == start_sync_time + SumRange([j \in 1..i |-> IF j = 1 THEN 0 ELSE ms[j] - ms[j - 1]], 1, i)
        column == [i \in 1..n |-> pad_with_zeros(avitime(i), 9)]
    IN  IF bad # 0 THEN Raise(ReadError(cols, time_column), Put(cols, AVITIME, column))
        ELSE Ret(Put(cols, AVITIME, column))

\* add_avitime_column of functions/compute.py: the same steps, with the number
\* of rows read from the first column of the mapping once data['avitime'] = []
\* is stored; a mapping that holds 'avitime' falls off the end of the function
compute_py_add_avitime_column(cols, start_sync_time, time_column) ==
  IF AVITIME \in Keys(cols) THEN RetNone(cols)
  ELSE
    LET rows == FirstLen(Put(cols, AVITIME, <<>>))
        bad == FirstBad(cols, {time_column}, rows)
        n == IF bad # 0 THEN bad - 1 ELSE rows
        ms == list([i \in 1..n |-> hhmmsscc_to_milliseconds(Col(cols, time_column)[i])])
        avitime(i) == start_sync_time + SumRange([j \in 1..i |-> IF j = 1 THEN 0 ELSE ms[j] - ms[j - 1]], 1, i)
        column == [i \in 1..n |-> pad_with_zeros(avitime(i), 9)]
    IN  IF bad # 0 THEN Raise(ReadError(cols, time_column), Put(cols, AVITIME, column))
        ELSE Ret(Put(cols, AVITIME, column))

\* compute_function(data) for the compute function fn, given as its name and
\* the arguments bound to it.  The last five are functions a caller passes to
\* add_computed_column: one that adds a column, one that adds nothing, one
\* that adds two columns, one that replaces a column by another, one that
\* returns None.
Apply(fn, cols) ==
  CASE fn.kind = "constant_function" -> constant_function(cols, fn.data_column_name, fn.constant_value)
    [] fn.kind = "gps_heading_function" ->
         gps_heading_function(cols, fn.heading_column, fn.lat_column, fn.long_column, fn.smoothing_window)
    [] fn.kind = "compute_rotation_speed" ->
         compute_rotation_speed(cols, fn.rotation_speed_column, fn.heading_column, fn.time_column,
                                fn.smoothing_window)
    [] fn.kind = "compute_oversteer" ->
         compute_oversteer(cols, fn.rotation_speed_column, fn.gyro_z_column, fn.oversteer_column)
    [] fn.kind = "add_avitime_column" -> add_avitime_column(cols, fn.start_sync_time, fn.time_column)
    [] fn.kind = "adds_one" -> Ret(Put(cols, "extra", [i \in 1..nval |-> "1"]))
    [] fn.kind = "adds_nothing" -> Ret(cols)
    [] fn.kind = "adds_two" -> Ret(Put(Put(cols, "extra", [i \in 1..nval |-> "1"]),
                                       "extra2", [i \in 1..nval |-> "2"]))
    [] fn.kind = "replaces_first" ->
         Ret(Put(IF cols = <<>> THEN cols ELSE Pop(cols, cols[1].name), "extra", [i \in 1..nval |-> "1"]))
    [] fn.kind = "returns_none" -> RetNone(cols)

\* -------------------------------------------------------------- operations
\* An operation maps the object's state st to the state it leaves and the
\* exception it raises ("" when it returns).  calls counts the compute
\* function invocations.
Ok(st) == [st |-> st, exc |-> ""]

Fail(st, exc) == [st |-> st, exc |-> exc]

DuplicateHeader == "ValueError: header column already exists"

NotOneColumn == "ValueError: must add exactly one new column"

\* KeyError(f"Time column '{time_column}' not found in data.")
TimeColumnNotFound(time_column) == "KeyError: Time column '" \o time_column \o "' not found in data."

\* KeyError(f"Gyro Z column '{gyro_z_column}' not found in data.")
GyroColumnNotFound(gyro_z_column) == "KeyError: Gyro Z column '" \o gyro_z_column \o "' not found in data."

\* remove_column without the [column names] step
remove_column_keeps_name(st, header_column_name, data_column_name) ==
  LET s2 == IF header_column_name \in Range(st.header)
              THEN [st EXCEPT !.header = ListRemove(@, header_column_name)] ELSE st
  IN  IF s2.data.none THEN Fail(s2, "TypeError")
      ELSE IF data_column_name \in Keys(s2.data.cols)
        THEN Ok([s2 EXCEPT !.data = Table(Pop(@.cols, data_column_name))])
        ELSE Ok(s2)

\* remove_column without the [header] step
remove_column_keeps_header(st, header_column_name, data_column_name) ==
  LET s1 == IF data_column_name \in Range(st.column_names)
              THEN [st EXCEPT !.column_names = ListRemove(@, data_column_name)] ELSE st
  IN  IF s1.data.none THEN Fail(s1, "TypeError")
      ELSE IF data_column_name \in Keys(s1.data.cols)
        THEN Ok([s1 EXCEPT !.data = Table(Pop(@.cols, data_column_name))])
        ELSE Ok(s1)

remove_column(st, header_column_name, data_column_name) ==
  LET s1 == IF data_column_name \in Range(st.column_names)
              THEN [st EXCEPT !.column_names = ListRemove(@, data_column_name)] ELSE st
      s2 == IF header_column_name \in Range(s1.header)
              THEN [s1 EXCEPT !.header = ListRemove(@, header_column_name)] ELSE s1
  IN  IF s2.data.none THEN Fail(s2, "TypeError")
      ELSE IF data_column_name \in Keys(s2.data.cols)
        THEN Ok([s2 EXCEPT !.data = Table(Pop(@.cols, data_column_name))])
        ELSE Ok(s2)

new_columns(cols, names) == SelectSeq(KeyList(cols), LAMBDA col : col \notin Range(names))

\* the check that accepts any non-empty list of new columns
not_exactly_one_accepts_many(new) == Len(new) = 0

\* len(new_columns) != 1
not_exactly_one(new) == Len(new) # 1

\* the new name goes first in [column names]
append_new_column_prepends(s2, new) ==
  IF not_exactly_one(new) THEN Fail(s2, NotOneColumn)
  ELSE Ok([s2 EXCEPT !.column_names = <<new[1]>> \o @])

\* the mapping s2 holds is the one the compute function returned, new its
\* keys that [column names] does not list: one is required, and appended
append_new_column(s2, new) ==
  IF not_exactly_one(new) THEN Fail(s2, NotOneColumn)
  ELSE Ok([s2 EXCEPT !.column_names = Append(@, new[1])])

\* self.sections['[data]'] = compute_function(...): r is what the function
\* left; the result is stored before it is checked
store_computed(s1, r) ==
  IF r.exc # "" THEN Fail([s1 EXCEPT !.data = Table(r.cols)], r.exc)
  ELSE IF r.none THEN Fail([s1 EXCEPT !.data = None], "TypeError")
  ELSE append_new_column([s1 EXCEPT !.data = Table(r.cols)], new_columns(r.cols, s1.column_names))

\* the compute function runs on the mapping of s1, whose [header] already
\* has the new label
call_compute_function(s1, compute_function) ==
  IF s1.data.none THEN Fail(s1, "TypeError")
  ELSE store_computed(s1, Apply(compute_function, s1.data.cols))

\* add_computed_column that tolerates a header label already in the list
add_computed_column_lenient(st, header_column_name, compute_function) ==
  call_compute_function([st EXCEPT !.header = IF header_column_name \in Range(@) THEN @
                                                ELSE Append(@, header_column_name),
                                    !.calls = @ + 1],
                        compute_function)

add_computed_column(st, header_column_name, compute_function) ==
  IF header_column_name \in Range(st.header) THEN Fail(st, DuplicateHeader)
  ELSE call_compute_function([st EXCEPT !.header = Append(@, header_column_name), !.calls = @ + 1],
                             compute_function)

add_constant_column(st, header_column_name, data_column_name, constant_value) ==
  IF st.data.none THEN Fail(st, "TypeError")
  ELSE IF data_column_name \notin Keys(st.data.cols)
    THEN add_computed_column(st, header_column_name,
           [kind |-> "constant_function", data_column_name |-> data_column_name,
            constant_value |-> constant_value])
    ELSE Ok(st)

\* add_gps_heading_column without the test for an existing column
add_gps_heading_column_recomputes(st, heading_column, long_column, lat_column, smoothing_window) ==
  IF st.data.none THEN Fail(st, "TypeError")
  ELSE add_computed_column(st, heading_column,
         [kind |-> "gps_heading_function", heading_column |-> heading_column,
          lat_column |-> lat_column, long_column |-> long_column,
          smoothing_window |-> smoothing_window])

add_gps_heading_column(st, heading_column, long_column, lat_column, smoothing_window) ==
  IF st.data.none THEN Fail(st, "TypeError")
  ELSE IF heading_column \in Keys(st.data.cols) THEN Ok(st)
  ELSE add_computed_column(st, heading_column,
         [kind |-> "gps_heading_function", heading_column |-> heading_column,
          lat_column |-> lat_column, long_column |-> long_column,
          smoothing_window |-> smoothing_window])

\* the flag set whatever the table holds
added_here_always(st, column) == TRUE

\* remove_heading_column / remove_rotation_column: the dependency column is
\* missing, so this call adds it and removes it again
added_here(st, column) == column \notin Keys(st.data.cols)

\* the end of a cascade: r2 is what add_computed_column left; the dependency
\* column goes when this call added it
remove_dependency(r2, remove_flag, column) ==
  IF r2.exc # "" THEN r2
  ELSE IF remove_flag THEN remove_column(r2.st, column, column)
  ELSE r2

\* the middle of a cascade: r1 is what the dependency step left; an exception
\* there ends the call
add_from_dependency(r1, header_column_name, compute_function, remove_flag, column) ==
  IF r1.exc # "" THEN r1
  ELSE remove_dependency(add_computed_column(r1.st, header_column_name, compute_function),
                         remove_flag, column)

add_rotation_speed_from_heading_column(st, time_column, heading_column, rotation_speed_column, smoothing_window) ==
  IF st.data.none THEN Fail(st, "TypeError")
  ELSE IF rotation_speed_column \in Keys(st.data.cols) THEN Ok(st)
  ELSE IF time_column \notin Keys(st.data.cols) THEN Fail(st, TimeColumnNotFound(time_column))
  ELSE add_from_dependency(
         IF added_here(st, heading_column)
           THEN add_gps_heading_column(st, heading_column, LONG, LAT, DefaultHeadingWindow)
           ELSE Ok(st),
         rotation_speed_column,
         [kind |-> "compute_rotation_speed", rotation_speed_column |-> rotation_speed_column,
          heading_column |-> heading_column, time_column |-> time_column,
          smoothing_window |-> smoothing_window],
         added_here(st, heading_column), heading_column)

\* add_oversteer_column without the test for the gyro column
add_oversteer_column_unchecked(st, rotation_speed_column, gyro_z_column, oversteer_column) ==
  IF st.data.none THEN Fail(st, "TypeError")
  ELSE IF oversteer_column \in Keys(st.data.cols) THEN Ok(st)
  ELSE add_from_dependency(
         IF added_here(st, rotation_speed_column)
           THEN add_rotation_speed_from_heading_column(st, TIME, HEADING, rotation_speed_column,
                                                       DefaultRotationWindow)
           ELSE Ok(st),
         oversteer_column,
         [kind |-> "compute_oversteer", rotation_speed_column |-> rotation_speed_column,
          gyro_z_column |-> gyro_z_column, oversteer_column |-> oversteer_column],
         added_here(st, rotation_speed_column), rotation_speed_column)

add_oversteer_column(st, rotation_speed_column, gyro_z_column, oversteer_column) ==
  IF st.data.none THEN Fail(st, "TypeError")
  ELSE IF oversteer_column \in Keys(st.data.cols) THEN Ok(st)
  ELSE IF gyro_z_column \notin Keys(st.data.cols) THEN Fail(st, GyroColumnNotFound(gyro_z_column))
  ELSE add_from_dependency(
         IF added_here(st, rotation_speed_column)
           THEN add_rotation_speed_from_heading_column(st, TIME, HEADING, rotation_speed_column,
                                                       DefaultRotationWindow)
           ELSE Ok(st),
         oversteer_column,
         [kind |-> "compute_oversteer", rotation_speed_column |-> rotation_speed_column,
          gyro_z_column |-> gyro_z_column, oversteer_column |-> oversteer_column],
         added_here(st, rotation_speed_column), rotation_speed_column)

\* __move_section: the key section_to_move is taken out and put back right
\* after after_section; nothing moves when either is missing
move_section(order, section_to_move, after_section) ==
  IF section_to_move \notin Range(order) \/ after_section \notin Range(order) THEN order
  ELSE
    LET items == ListRemove(order, section_to_move)
        i == CHOOSE j \in DOMAIN items : items[j] = after_section
    IN  SubSeq(items, 1, i) \o <<section_to_move>> \o SubSeq(items, i + 1, Len(items))

\* the [avi] section is created when it is missing
avi_section_step(st, video_file_name, format) ==
  IF "[avi]" \notin Range(st.sections)
    THEN [st EXCEPT !.sections = Append(@, "[avi]"), !.avi = <<video_file_name, format>>]
    ELSE st

\* the avifileindex column is added when the mapping has no such key
avifileindex_step(s0, number) ==
  IF s0.data.none THEN Fail(s0, "TypeError")
  ELSE IF AVIFILEINDEX \notin Keys(s0.data.cols)
    THEN add_constant_column(s0, AVIFILEINDEX, AVIFILEINDEX, pad_with_zeros(number, 4))
    ELSE Ok(s0)

\* the [avi] section is moved behind [laptiming]
move_avi_step(r2) ==
  IF r2.exc # "" THEN r2
  ELSE Ok([r2.st EXCEPT !.sections = move_section(@, "[avi]", "[laptiming]")])

\* the column labelled avisynctime is added when the mapping has no key
\* avisynctime; the compute function stores its values under avitime
avisynctime_step(r1, start_sync_time, time_column) ==
  IF r1.exc # "" THEN r1
  ELSE IF r1.st.data.none THEN Fail(r1.st, "TypeError")
  ELSE IF AVISYNCTIME \notin Keys(r1.st.data.cols)
    THEN move_avi_step(add_computed_column(r1.st, AVISYNCTIME,
           [kind |-> "add_avitime_column", start_sync_time |-> start_sync_time,
            time_column |-> time_column]))
    ELSE move_avi_step(Ok(r1.st))

add_avi_section(st, video_file_name, format, number, start_sync_time, time_column) ==
  avisynctime_step(avifileindex_step(avi_section_step(st, video_file_name, format), number),
                   start_sync_time, time_column)

\* ------------------------------------------------------------ parsed files
\* the time cell '000000.00'
ZeroTime == zfill(str(0), 6) \o <<".">> \o zfill(str(0), 2)

\* the time cells '000000.00' and '000001.50'
TimeVals == {ZeroTime, zfill(str(1), 6) \o <<".">> \o zfill(str(50), 2)}

LatVals == {0, 1}

\* the gyro sample of row i: "000.25" on even rows, "-01.50" on odd rows
GyroOf(i) == IF i % 2 = 0 THEN Txt(0, 25, 6) ELSE Txt(0 - 2, 50, 6)

BaseColumns == <<TIME, LAT, LONG, GYRO>>

\* __init__: one values list per name of the [column names] line, filled by
\* the nval rows of [data]; a file without rows leaves the mapping empty
ParsedData(n, time, lat) ==
  IF n = 0 THEN <<>>
  ELSE << [name |-> TIME, values |-> time],
          [name |-> LAT, values |-> lat],
          [name |-> LONG, values |-> [i \in 1..n |-> 0]],
          [name |-> GYRO, values |-> [i \in 1..n |-> GyroOf(i)]] >>

\* the files read: every table of up to MaxRows rows without a [laptiming]
\* section, and with one the tables whose rows all hold the first time and a
\* latitude of 0
Init ==
  \E n \in 0..MaxRows : \E time \in [1..n -> TimeVals] : \E lat \in [1..n -> LatVals] :
  \E laptiming \in BOOLEAN :
    /\ laptiming => /\ \A i \in 1..n : time[i] = ZeroTime
                    /\ \A i \in 1..n : lat[i] = 0
    /\ nval = n
    /\ sections = IF laptiming THEN <<"[header]", "[laptiming]", "[column names]", "[data]">>
                  ELSE <<"[header]", "[column names]", "[data]">>
    /\ avi = <<>>
    /\ header = BaseColumns
    /\ column_names = BaseColumns
    /\ data = Table(ParsedData(n, time, lat))
    /\ last = [op |-> "__init__", args |-> <<>>, exc |-> "", calls |-> 0]
    /\ pre = [sections |-> sections, avi |-> avi, header |-> header,
              column_names |-> column_names, data |-> data]
    /\ ops = 0

\* ----------------------------------------------------------------- actions
Self == [sections |-> sections, avi |-> avi, header |-> header,
         column_names |-> column_names, data |-> data, calls |-> 0]

\* the call op(args) ran and left r
Call(op, args, r) ==
  /\ ops < MaxOps
  /\ ops' = ops + 1
  /\ sections' = r.st.sections
  /\ avi' = r.st.avi
  /\ header' = r.st.header
  /\ column_names' = r.st.column_names
  /\ data' = r.st.data
  /\ last' = [op |-> op, args |-> args, exc |-> r.exc, calls |-> r.st.calls]
  /\ pre' = [sections |-> sections, avi |-> avi, header |-> header,
             column_names |-> column_names, data |-> data]
  /\ UNCHANGED nval

Windows == 1..MaxWindow

UserFunctions == {"adds_one", "adds_nothing", "adds_two", "replaces_first", "returns_none"}

UserLabels == {"extra", TIME}

RemoveArgs == {<<TIME, TIME>>, <<LAT, LAT>>, <<GYRO, GYRO>>, <<HEADING, HEADING>>,
               <<ROTATION, ROTATION>>, <<AVISYNCTIME, AVITIME>>, <<AVISYNCTIME, AVISYNCTIME>>}

AddComputedColumn ==
  \E label \in UserLabels : \E f \in UserFunctions :
    Call("add_computed_column", <<label, f>>, add_computed_column(Self, label, [kind |-> f]))

AddConstantColumn ==
  \E label \in UserLabels :
    Call("add_constant_column", <<label, "extra", "42">>, add_constant_column(Self, label, "extra", "42"))

RemoveColumn ==
  \E a \in RemoveArgs :
    Call("remove_column", a, remove_column(Self, a[1], a[2]))

AddGpsHeadingColumn ==
  \E w \in Windows :
    Call("add_gps_heading_column", <<HEADING, LONG, LAT, w>>,
         add_gps_heading_column(Self, HEADING, LONG, LAT, w))

AddRotationSpeedFromHeadingColumn ==
  \E w \in Windows :
    Call("add_rotation_speed_from_heading_column", <<TIME, HEADING, ROTATION, w>>,
         add_rotation_speed_from_heading_column(Self, TIME, HEADING, ROTATION, w))

AddOversteerColumn ==
  Call("add_oversteer_column", <<ROTATION, GYRO, OVERSTEER>>,
       add_oversteer_column(Self, ROTATION, GYRO, OVERSTEER))

AddAviSection ==
  Call("add_avi_section", <<"video_", "MOV", 3, 1000, TIME>>,
       add_avi_section(Self, "video_", "MOV", 3, 1000, TIME))

Next ==
  \/ AddComputedColumn
  \/ AddConstantColumn
  \/ RemoveColumn
  \/ AddGpsHeadingColumn
  \/ AddRotationSpeedFromHeadingColumn
  \/ AddOversteerColumn
  \/ AddAviSection

Spec == Init /\ [][Next]_vars

\* ------------------------------------------------------------------- types
TypeOK ==
  /\ nval \in 0..MaxRows
  /\ ops \in 0..MaxOps
  /\ data.none \in BOOLEAN
  /\ Len(header) >= 0
  /\ Len(column_names) >= 0

\* ---------------------------------------------- the functions on their own
\* The module-level functions called directly: last holds the call, its
\* arguments and what it returned; the table is an empty one and stays so.
MaxWidth == 9

MaxNumber == 5

FunctionsInit ==
  /\ nval = 0
  /\ sections = <<"[header]", "[column names]", "[data]">>
  /\ avi = <<>>
  /\ header = <<>>
  /\ column_names = <<>>
  /\ data = Table(<<>>)
  /\ last = [op |-> "import", args |-> <<>>, exc |-> "", calls |-> 0, ret |-> <<>>]
  /\ pre = [sections |-> sections, avi |-> avi, header |-> header,
            column_names |-> column_names, data |-> data]
  /\ ops = 0

\* the call op(args) had the outcome r
FunctionCall(op, args, r) ==
  /\ last' = [op |-> op, args |-> args, exc |-> r.exc, calls |-> 0, ret |-> r.ret]
  /\ UNCHANGED <<sections, avi, header, column_names, data, nval, pre, ops>>

\* the digit groups HHMMSS read as one number
TimeNumbers == {0, 1, 6099, 94559, 236099}

\* a text of digits: the number n in at least k digits, the empty text for k = 0
DigitsText(n, k) == IF k = 0 THEN <<>> ELSE zfill(str(n), k)

\* the argument text: the integer part, then '.' and the fraction if any
TimeText(n, k, has_fraction, fd, fv) ==
  DigitsText(n, k) \o (IF has_fraction THEN <<".">> \o DigitsText(fv, fd) ELSE <<>>)

HhmmssccToMilliseconds ==
  \E n \in TimeNumbers : \E k \in 0..6 : \E has_fraction \in BOOLEAN :
  \E fd \in 0..2 : \E fv \in {0, 5, 9, 50, 96} :
    /\ k = 0 => n = 0
    /\ fv < 10^fd
    /\ ~has_fraction => fd = 0
    /\ FunctionCall("hhmmsscc_to_milliseconds", <<TimeText(n, k, has_fraction, fd, fv), n, has_fraction, fd, fv>>,
                    Returns(hhmmsscc_to_milliseconds(TimeText(n, k, has_fraction, fd, fv))))

PadNumbers == 0..MaxNumber \cup {42, 99, 100, 999, 1000, 123456}

PadWithZeros ==
  \E number \in PadNumbers : \E total_length \in 0..MaxWidth :
    FunctionCall("pad_with_zeros", <<number, total_length>>, Returns(pad_with_zeros(number, total_length)))

HeadingWholes == {0 - 1000, 0 - 13, 0 - 1, 0, 1, 12, 99, 100, 1000}

HeadingCents == {0, 1, 20, 34, 50, 99}

Rests == {"zero", "below", "half", "above"}

FormatHeading ==
  \E w \in HeadingWholes : \E c \in HeadingCents : \E rest \in Rests :
    FunctionCall("format_heading", <<w, c, rest>>, Returns(format_heading(Float(w, c, rest))))

LongVals == {0, 1}

ComputeHeading ==
  \E lat1 \in LatVals : \E lon1 \in LongVals : \E lat2 \in LatVals : \E lon2 \in LongVals :
    FunctionCall("compute_heading", <<lat1, lon1, lat2, lon2>>,
                 Returns(compute_heading(lat1, lon1, lat2, lon2)))

\* results of atan2 in degrees: the fractions within two degrees of zero and
\* the multiples of 15 degrees from -180 to 180
AtanResults ==
  {d \in (0 - 180 * DegreeUnit)..(180 * DegreeUnit) :
     Abs(d) <= 2 * DegreeUnit \/ d % (15 * DegreeUnit) = 0}

\* the last line of compute_heading on an atan2 result
Bearing ==
  \E degrees \in AtanResults :
    FunctionCall("bearing", <<degrees>>, Returns(bearing(degrees)))

Rpms == {0, 3000}

Throttles == {0, 50, 100}

\* intake temperatures in hundredths of a degree Celsius
IntakeTemps == {0 - 27315, 1500, 2685}

Displacements == {1000, 2000}

\* volumetric efficiencies and lambdas in hundredths
VolumetricEfficiencies == {75, 90}

Lambdas == {0, 50, 100}

EstimateInstantFuelConsumption ==
  \E rpm \in Rpms : \E throttle \in Throttles : \E intake_temp \in IntakeTemps :
  \E cc \in Displacements : \E ve \in VolumetricEfficiencies : \E lambda_value \in Lambdas :
    FunctionCall("estimate_instant_fuel_consumption", <<rpm, throttle, intake_temp, cc, ve, lambda_value>>,
                 estimate_instant_fuel_consumption(Rat(rpm, 1), Rat(throttle, 1), Rat(intake_temp, 100),
                                                   Rat(cc, 1), Rat(ve, 100), Rat(lambda_value, 100)))

\* headings of [0, 360), in hundredths of a degree
HeadingValues == {0, 1, 9000, 17999, 18000, 18001, 27000, 35999}

\* the heading difference of compute_rotation_speed
DeltaHeading ==
  \E prev_heading \in HeadingValues : \E curr_heading \in HeadingValues :
    FunctionCall("delta_heading", <<prev_heading, curr_heading>>,
                 Returns(delta_heading(prev_heading, curr_heading)))

\* times in milliseconds
TimesMs == {0, 1500, 3000}

\* the time step of compute_rotation_speed
Dt ==
  \E prev_time \in TimesMs : \E curr_time \in TimesMs :
    FunctionCall("dt", <<prev_time, curr_time>>, Returns(dt(prev_time, curr_time)))

\* the lists of at most MaxRows values of S
Lists(S) == UNION {[1..n -> S] : n \in 0..MaxRows}

\* the first loop of compute_rotation_speed on a heading and a time column
RawRotationSpeeds ==
  \E headings \in Lists({0, 9000, 18000}) : \E ms \in [1..Len(headings) -> {0, 1500}] :
    FunctionCall("raw_rotation_speeds", <<headings, ms>>, raw_rotation_speeds(headings, ms))

\* raw rotation speeds in degrees per second
RawValues == {0 - 120, 0, 60}

\* the second loop of compute_rotation_speed
Smoothed ==
  \E raw \in Lists(RawValues) : \E smoothing_window \in 0..MaxWindow :
    FunctionCall("smoothed", <<raw, smoothing_window>>, smoothed(raw, smoothing_window))

\* the time cells '000000.00', '000001.50' and '000100.00'
FuelTimes == TimeVals \cup {zfill(str(100), 6) \o <<".">> \o zfill(str(0), 2)}

\* instantaneous consumptions, in ten-thousandths
FuelValues == {0, 12345}

\* time_window_sec
TimeWindows == {0 - 1, 0, 5}

ComputeFuelConsumptionAvg ==
  \E fuel_consumption_inst \in Lists(FuelValues) :
  \E time \in [1..Len(fuel_consumption_inst) -> FuelTimes] : \E time_window_sec \in TimeWindows :
    FunctionCall("compute_fuel_consumption_avg", <<fuel_consumption_inst, time, time_window_sec>>,
                 Returns(compute_fuel_consumption_avg(fuel_consumption_inst, time, time_window_sec)))

\* the mappings handed to add_avitime_column: any of the columns lat, time and
\* avitime, in this order, of n rows each
AvitimeTable(has, time) ==
  LET n == Len(time)
  IN  (IF LAT \in has THEN <<[name |-> LAT, values |-> [i \in 1..n |-> 0]]>> ELSE <<>>)
        \o (IF TIME \in has THEN <<[name |-> TIME, values |-> time]>> ELSE <<>>)
        \o (IF AVITIME \in has THEN <<[name |-> AVITIME, values |-> [i \in 1..n |-> pad_with_zeros(0, 9)]]>>
            ELSE <<>>)

AddAvitimeColumn ==
  \E has \in SUBSET {LAT, TIME, AVITIME} : \E time \in Lists(TimeVals) :
    LET r == compute_py_add_avitime_column(AvitimeTable(has, time), 1000, TIME)
    IN  FunctionCall("add_avitime_column", <<AvitimeTable(has, time), 1000, TIME>>,
                     [exc |-> r.exc, ret |-> [none |-> r.none, cols |-> r.cols]])

FunctionsNext ==
  \/ HhmmssccToMilliseconds
  \/ PadWithZeros
  \/ FormatHeading
  \/ ComputeHeading
  \/ Bearing
  \/ DeltaHeading
  \/ Dt
  \/ RawRotationSpeeds
  \/ Smoothed
  \/ ComputeFuelConsumptionAvg
  \/ AddAvitimeColumn
  \/ EstimateInstantFuelConsumption

FunctionsSpec == FunctionsInit /\ [][FunctionsNext]_vars

\* ------------------------------------------------------------- properties
Returned == last.exc = ""

PreKeys == Keys(pre.data.cols)

\* the positions of x in the list s
Positions(s, x) == {i \in DOMAIN s : s[i] = x}

\* the data mapping is pre's with the column k appended
OneColumnAppended(k) ==
  /\ ~data.none
  /\ Len(data.cols) = Len(pre.data.cols) + 1
  /\ SubSeq(data.cols, 1, Len(pre.data.cols)) = pre.data.cols
  /\ data.cols[Len(data.cols)].name = k

Preserved(k) ==
  /\ ~data.none
  /\ k \in Keys(data.cols)
  /\ IndexOf(data.cols, k) = IndexOf(pre.data.cols, k)
  /\ Col(data.cols, k) = Col(pre.data.cols, k)
  /\ Positions(column_names, k) = Positions(pre.column_names, k)
  /\ Positions(header, k) = Positions(pre.header, k)

\* C2: a heading column present when add_rotation_speed_from_heading_column is
\* called, and a rotation-speed column present when add_oversteer_column is
\* called, is still there after the call, with the same values, column-name
\* entry and header label.
DependencyPresentBeforeIsKept ==
  /\ (last.op = "add_rotation_speed_from_heading_column" /\ HEADING \in PreKeys) => Preserved(HEADING)
  /\ (last.op = "add_oversteer_column" /\ ROTATION \in PreKeys) => Preserved(ROTATION)

RotationAddedFromExistingHeading ==
  /\ last.op = "add_rotation_speed_from_heading_column" /\ Returned
  /\ nval >= 2
  /\ HEADING \in PreKeys /\ ROTATION \notin PreKeys
  /\ ROTATION \in Keys(data.cols)
  /\ HEADING \in Range(header)

Wrappers == {"add_gps_heading_column", "add_rotation_speed_from_heading_column", "add_oversteer_column"}

\* C3: add_gps_heading_column, add_rotation_speed_from_heading_column or
\* add_oversteer_column called again with the same arguments right after it
\* returned raises nothing and changes neither the data mapping, nor the
\* column-name list, nor the header list.
SecondCallIsNoOp ==
  [][ ( /\ last.op \in Wrappers /\ last.exc = ""
        /\ last'.op = last.op /\ last'.args = last.args )
      => /\ last'.exc = ""
         /\ data' = data
         /\ column_names' = column_names
         /\ header' = header ]_vars

OversteerCalledAgain ==
  /\ last.op = "add_oversteer_column" /\ Returned
  /\ OVERSTEER \in PreKeys
  /\ ROTATION \notin PreKeys
  /\ last.calls = 0

\* C4 (as claimed): add_avi_section called again with the same arguments
\* right after it returned returns too, and leaves the sections, the header
\* list, the column-name list and the data mapping unchanged.
AviSectionSecondCallIsNoOp ==
  [][ ( /\ last.op = "add_avi_section" /\ last.exc = ""
        /\ last'.op = "add_avi_section" /\ last'.args = last.args )
      => /\ last'.exc = ""
         /\ sections' = sections
         /\ avi' = avi
         /\ header' = header
         /\ column_names' = column_names
         /\ data' = data ]_vars

\* C5: add_computed_column with a label that is already in the header list
\* raises the duplicate-header error, does not call the compute function and
\* leaves the header list, the column-name list and the data mapping alone.
DuplicateLabelRejectedUntouched ==
  (last.op = "add_computed_column" /\ last.args[1] \in Range(pre.header))
    => /\ last.exc = DuplicateHeader
       /\ last.calls = 0
       /\ header = pre.header
       /\ column_names = pre.column_names
       /\ data = pre.data

DuplicateLabelCall ==
  /\ last.op = "add_computed_column"
  /\ last.args[1] \in Range(pre.header)
  /\ last.args[2] = "adds_one"
  /\ last.exc = DuplicateHeader

\* the compute function of the last add_computed_column call ran and returned
\* a mapping
ComputeReturnedTable ==
  /\ last.op = "add_computed_column"
  /\ last.args[1] \notin Range(pre.header)
  /\ ~pre.data.none
  /\ last.args[2] # "returns_none"

\* the keys of the data mapping that the column-name list lacked when the
\* compute function returned
NewKeys == Keys(data.cols) \ Range(pre.column_names)

\* C6: when the compute function has returned, add_computed_column raises the
\* exactly-one-new-column error if the keys of the data mapping absent from the
\* column-name list are none or two or more, and then appends nothing to the
\* column-name list; it returns if there is exactly one.
ExactlyOneNewColumnOrError ==
  ComputeReturnedTable =>
    /\ Cardinality(NewKeys) # 1 => (last.exc = NotOneColumn /\ column_names = pre.column_names)
    /\ Cardinality(NewKeys) = 1 => last.exc = ""

TwoNewColumnsRejected ==
  /\ ComputeReturnedTable
  /\ Cardinality(NewKeys) >= 2
  /\ last.exc = NotOneColumn

\* C7: after add_computed_column(label, f) returned, the column-name list is
\* the previous one with the name of the new column appended and the header
\* list is the previous one with label appended.
SuccessAppendsNameAndLabel ==
  (last.op = "add_computed_column" /\ Returned)
    => /\ Len(column_names) = Len(pre.column_names) + 1
       /\ SubSeq(column_names, 1, Len(pre.column_names)) = pre.column_names
       /\ column_names[Len(column_names)] \in NewKeys
       /\ header = Append(pre.header, last.args[1])

ComputedColumnAdded ==
  /\ last.op = "add_computed_column" /\ Returned
  /\ last.args = <<"extra", "adds_one">>
  /\ nval >= 1
  /\ column_names = Append(pre.column_names, "extra")

NoDuplicates(s) == \A i, j \in DOMAIN s : s[i] = s[j] => i = j

\* C8 (as claimed): for a parsed table whose data keys are the column names
\* (a file with rows), after every operation that returned the set of data
\* keys is the set of column names, and no column name occurs twice.
KeysMatchColumnNames ==
  (nval > 0 /\ Returned)
    => /\ ~data.none
       /\ Keys(data.cols) = Range(column_names)
       /\ NoDuplicates(column_names)

\* C9 (as claimed): after any sequence of transform applications that
\* returned, every column of the data mapping has exactly nval values.
EveryColumnHasNvalValues ==
  (Returned /\ ~data.none) => \A i \in DOMAIN data.cols : Len(data.cols[i].values) = nval

\* C10 (as claimed): whether the calls return or raise, the header list and
\* the column-name list differ in length by what they did in the parsed table,
\* where both have one entry per column.
HeaderAndNamesInLockstep ==
  Len(header) - Len(column_names) = Len(BaseColumns) - Len(BaseColumns)

\* the call started from the table pre and left it as it was
Untouched ==
  /\ header = pre.header
  /\ column_names = pre.column_names
  /\ data = pre.data
  /\ sections = pre.sections
  /\ avi = pre.avi

\* C11: add_oversteer_column on a table without the oversteer column and
\* without the gyro column raises the KeyError that names the gyro column, and
\* add_rotation_speed_from_heading_column on a table without the rotation-speed
\* column and without the time column raises the KeyError that names the time
\* column; both do so before any change: no compute function has run and the
\* header list, the column-name list and the data mapping are as before.
MissingColumnReportedBeforeAnyChange ==
  /\ (/\ last.op = "add_oversteer_column" /\ ~pre.data.none
      /\ last.args[3] \notin PreKeys /\ last.args[2] \notin PreKeys)
       => /\ last.exc = GyroColumnNotFound(last.args[2])
          /\ last.calls = 0
          /\ Untouched
  /\ (/\ last.op = "add_rotation_speed_from_heading_column" /\ ~pre.data.none
      /\ last.args[3] \notin PreKeys /\ last.args[1] \notin PreKeys)
       => /\ last.exc = TimeColumnNotFound(last.args[1])
          /\ last.calls = 0
          /\ Untouched

\* add_oversteer_column called on a table with rows that has lost its gyro
\* column and has no rotation-speed column to start from
OversteerWithoutGyro ==
  /\ last.op = "add_oversteer_column" /\ ~pre.data.none
  /\ nval >= 2
  /\ TIME \in PreKeys
  /\ GYRO \notin PreKeys /\ OVERSTEER \notin PreKeys /\ ROTATION \notin PreKeys
  /\ ~Returned

\* the list s without the entries equal to x
Others(s, x) == SelectSeq(s, LAMBDA e : e # x)

\* the list now is the list before less one occurrence of x (none when x was
\* not in it), the other entries in their order
OneOccurrenceRemoved(now, before, x) ==
  /\ Len(now) = Len(before) - (IF x \in Range(before) THEN 1 ELSE 0)
  /\ Others(now, x) = Others(before, x)

\* C12: remove_column(header_label, column_name) on a data table returns
\* without raising; the data mapping is the one before without the column
\* column_name, the column-name list has lost one occurrence of column_name and
\* the header list one occurrence of header_label, every other column, name
\* and label keeping its value and relative order; when column, name and label
\* are all absent nothing changes.
RemoveColumnRemovesOneOfEach ==
  (last.op = "remove_column" /\ ~pre.data.none)
    => /\ Returned
       /\ ~data.none
       /\ data.cols = SelectSeq(pre.data.cols, LAMBDA col : col.name # last.args[2])
       /\ OneOccurrenceRemoved(column_names, pre.column_names, last.args[2])
       /\ OneOccurrenceRemoved(header, pre.header, last.args[1])
       /\ sections = pre.sections /\ avi = pre.avi
       /\ (/\ last.args[2] \notin PreKeys
           /\ last.args[2] \notin Range(pre.column_names)
           /\ last.args[1] \notin Range(pre.header)) => Untouched

\* remove_column took the AVI sync column out of a table where its label,
\* avisynctime, differs from its name, avitime
AviColumnRemoved ==
  /\ last.op = "remove_column" /\ last.args = <<AVISYNCTIME, AVITIME>>
  /\ ~pre.data.none
  /\ AVITIME \in PreKeys
  /\ AVITIME \in Range(pre.column_names)
  /\ AVISYNCTIME \in Range(pre.header)
  /\ Len(pre.data.cols) > Len(data.cols)

RECURSIVE DigitCount(_)
DigitCount(n) == IF n < 10 THEN 1 ELSE 1 + DigitCount(n \div 10)

\* the characters of the text t are digits
AllDigits(t) == \A i \in DOMAIN t : t[i] \in Range(Digits)

\* the number a text of digits denotes, by the place value of each digit
TextValue(t) == SumRange([i \in DOMAIN t |-> DigitVal(t[i]) * 10^(Len(t) - i)], 1, Len(t))

\* HH*3600000 + MM*60000 + SS*1000 + centiseconds*10 for the call in last: n
\* is the number the integer part denotes, which splits as HH MM SS once
\* padded to 6 digits; no fraction and an empty fraction count as 0 and a
\* fraction of the single digit d as d*10 centiseconds
ExpectedMilliseconds ==
  LET n == last.args[2]
      centiseconds == IF last.args[4] = 1 THEN last.args[5] * 10 ELSE last.args[5]
  IN  (n \div 10000) * 3600000 + ((n \div 100) % 100) * 60000 + (n % 100) * 1000 + centiseconds * 10

PadIsMinimumWidth ==
  (last.op = "pad_with_zeros" /\ last.args[1] >= 0) =>
    /\ AllDigits(last.ret)
    /\ Len(last.ret) = Max(last.args[2], DigitCount(last.args[1]))
    /\ TextValue(last.ret) = last.args[1]
    /\ \A i \in 1..(Len(last.ret) - DigitCount(last.args[1])) : last.ret[i] = "0"
    /\ last.args = <<42, 4>> => last.ret = <<"0", "0", "4", "2">>
    /\ last.args = <<123456, 4>> => last.ret = <<"1", "2", "3", "4", "5", "6">>

\* a number of more digits than the width came back whole
WiderNumberNotTruncated ==
  /\ last.op = "pad_with_zeros"
  /\ last.args = <<123456, 4>>
  /\ Len(last.ret) = 6

\* the hundredths nearest to the float w + (c + r)/100, ties to even
RoundedHundredths(w, c, rest) ==
  IF rest = "above" \/ (rest = "half" /\ c % 2 = 1) THEN w * 100 + c + 1 ELSE w * 100 + c

BearingInRange ==
  /\ last.op = "compute_heading"
       => /\ last.exc = ""
          /\ last.ret.w >= 0 /\ last.ret.w < 360
          /\ last.ret.c >= 0 /\ last.ret.c < 100
  /\ last.op = "bearing" => last.ret >= 0 /\ last.ret < 360 * DegreeUnit

\* the normalisation of an angle a fraction of a degree below zero, whose sum
\* with 360 rounds to 360
TinyNegativeAngleNormalised ==
  /\ last.op = "bearing"
  /\ last.args[1] = 0 - 1
  /\ RoundToFloat(last.args[1] + 360 * DegreeUnit) = 360 * DegreeUnit
  /\ last.ret = 0

\* C17: compute_heading counts clockwise from north: a move due north (lat2 >
\* lat1, same longitude) has the bearing 0 and a move due east (lon2 > lon1,
\* same latitude) the bearing 90, not 270.
ClockwiseFromNorth ==
  last.op = "compute_heading" =>
    /\ (last.args[3] > last.args[1] /\ last.args[4] = last.args[2]) => last.ret = Dec(0, 0)
    /\ (last.args[4] > last.args[2] /\ last.args[3] = last.args[1]) => last.ret = Dec(90, 0)

\* the bearing of a move due east was computed
EastwardMove ==
  /\ last.op = "compute_heading"
  /\ last.args = <<0, 0, 0, 1>>
  /\ last.ret = Dec(90, 0)

\* C18: estimate_instant_fuel_consumption with rpm = 0 returns 0 and raises
\* nothing, whatever the other arguments, those that make a later division a
\* division by zero (lambda = 0, intake temperature -273.15) included.
ZeroRpmGivesZero ==
  (last.op = "estimate_instant_fuel_consumption" /\ last.args[1] = 0)
    => last.exc = "" /\ last.ret = Rat(0, 1)

\* the call with rpm = 0, lambda = 0 and the intake at -273.15
ZeroRpmWithZeroDivisors ==
  /\ last.op = "estimate_instant_fuel_consumption"
  /\ last.args[1] = 0 /\ last.args[3] = 0 - 27315 /\ last.args[6] = 0
  /\ last.ret = Rat(0, 1)

\* the arguments of a call of estimate_instant_fuel_consumption are those
\* C19 is about: rpm, displacement, ve and lambda positive, the intake above
\* -273.15, the throttle in 0..100
PositiveEngine(args) ==
  /\ args[1] > 0 /\ args[4] > 0 /\ args[5] > 0 /\ args[6] > 0
  /\ args[3] > 0 - 27315
  /\ args[2] >= 0 /\ args[2] <= 100

\* C19: with rpm, displacement, ve, lambda positive and the intake above
\* -273.15, estimate_instant_fuel_consumption is 0 at throttle 0, and of two
\* calls that differ in the throttle only, the one with the larger throttle
\* returns strictly more.
ThrottleStrictlyIncreases ==
  (last.op = "estimate_instant_fuel_consumption" /\ PositiveEngine(last.args))
    => /\ last.exc = ""
       /\ last.args[2] = 0 => last.ret = Rat(0, 1)
       /\ \A throttle \in Throttles :
            last.args[2] < throttle
              => LET more == estimate_instant_fuel_consumption(
                               Rat(last.args[1], 1), Rat(throttle, 1), Rat(last.args[3], 100),
                               Rat(last.args[4], 1), Rat(last.args[5], 100), Rat(last.args[6], 100))
                 IN  more.exc = "" /\ RatLess(last.ret, more.ret)

\* a call at full throttle with a positive result
FullThrottleEstimated ==
  /\ last.op = "estimate_instant_fuel_consumption" /\ PositiveEngine(last.args)
  /\ last.args[2] = 100
  /\ RatLess(Rat(0, 1), last.ret)

\* C20: in the AVI sync column that add_avi_section adds to a table with a
\* time column, row 0 holds start_sync_time and every row i > 0 the value of
\* row i-1 plus decode(time[i]) - decode(time[i-1]) milliseconds, which is
\* start_sync_time + decode(time[i]) - decode(time[0]); each value is written
\* zero-filled to 9 characters, one per row.
AviSyncAccumulatesTimeDeltas ==
  (/\ last.op = "add_avi_section" /\ Returned
   /\ ~pre.data.none /\ AVITIME \notin PreKeys /\ TIME \in PreKeys)
    => /\ ~data.none /\ AVITIME \in Keys(data.cols)
       /\ LET avitime == Col(data.cols, AVITIME)
              time == Col(pre.data.cols, TIME)
              start_sync_time == last.args[4]
              value(i) == start_sync_time + hhmmsscc_to_milliseconds(time[i])
                            - hhmmsscc_to_milliseconds(time[1])
          IN  /\ Len(avitime) = nval
              /\ \A i \in 1..nval :
                   /\ avitime[i] = pad_with_zeros(value(i), 9)
                   /\ Len(avitime[i]) = 9
                   /\ i = 1 => value(i) = start_sync_time
                   /\ i > 1 => value(i) = value(i - 1) + hhmmsscc_to_milliseconds(time[i])
                                            - hhmmsscc_to_milliseconds(time[i - 1])

\* add_avi_section with start_sync_time = 1000 on two rows 1500 ms apart wrote
\* '000001000' and '000002500'
AviSyncColumnWritten ==
  /\ last.op = "add_avi_section" /\ Returned
  /\ nval = 2
  /\ ~data.none /\ AVITIME \in Keys(data.cols) /\ AVITIME \notin PreKeys
  /\ Col(data.cols, AVITIME) = << <<"0", "0", "0", "0", "0", "1", "0", "0", "0">>,
                                  <<"0", "0", "0", "0", "0", "2", "5", "0", "0">> >>

Adders == {"add_computed_column", "add_constant_column", "add_gps_heading_column",
           "add_rotation_speed_from_heading_column", "add_oversteer_column", "add_avi_section"}

\* C22: when add_computed_column or one of the wrappers built on it raises,
\* the header list, the column-name list and the data table are the same as
\* before the call.
RaisingCallLeavesTableUnchanged ==
  (last.op \in Adders /\ ~Returned)
    => /\ header = pre.header
       /\ column_names = pre.column_names
       /\ data = pre.data

\* C23: for headings of [0, 360) the heading difference d of the rotation-speed
\* transform is congruent to heading[i] - heading[i-1] modulo 360 and lies in
\* (-180, 180].
HeadingDifferenceInHalfOpenInterval ==
  last.op = "delta_heading"
    => /\ (last.ret - (last.args[2] - last.args[1])) % 36000 = 0
       /\ 0 - 18000 < last.ret
       /\ last.ret <= 18000

\* C24: the rotation-speed transform never divides by zero: the raw value of
\* row 0 is 0, the divisor of a row i > 0 is the difference of the decoded
\* times when they differ and 1e-6 seconds (1 microsecond) when they are
\* equal, and the moving average divides by a number of rows that is at least
\* 1, for every window size.
RotationSpeedNeverDividesByZero ==
  /\ last.op = "dt"
       => /\ last.ret # 0
          /\ last.args[2] # last.args[1] => last.ret = (last.args[2] - last.args[1]) * 1000
          /\ last.args[2] = last.args[1] => last.ret = 1
  /\ last.op = "raw_rotation_speeds"
       => /\ last.exc = ""
          /\ Len(last.ret) = Len(last.args[1])
          /\ Len(last.ret) >= 1 => last.ret[1] = 0
  /\ last.op = "smoothed"
       => /\ last.exc = ""
          /\ \A i \in 0..(Len(last.args[1]) - 1) :
               end(i, Len(last.args[1]), Max(1, last.args[2])) - start(i, Max(1, last.args[2])) >= 1

\* a quarter turn between two rows of equal times: 90 degrees in 1e-6 s
QuarterTurnInNoTime ==
  /\ last.op = "raw_rotation_speeds"
  /\ last.args = << <<0, 9000>>, <<1500, 1500>> >>
  /\ last.exc = ""
  /\ last.ret = <<0, 90000000>>

\* C25: the moving average of row i is the mean of the unsmoothed values of
\* the rows max(0, i - floor(w/2)) .. min(nval-1, i + floor(w/2)), with
\* w = max(1, smoothing_window), and with w = 1 it is the row's own value.
MovingAverageIsClippedMean ==
  last.op = "smoothed"
    => LET raw == last.args[1]
           n == Len(raw)
           w == Max(1, last.args[2])
           lo(i) == Max(0, i - (w \div 2))
           hi(i) == Min(n - 1, i + (w \div 2))
       IN  /\ last.exc = ""
           /\ Len(last.ret) = n
           /\ \A i \in 0..(n - 1) :
                /\ lo(i) <= i /\ i <= hi(i)
                /\ last.ret[i + 1] = Fixed2(SumRange(raw, lo(i) + 1, hi(i) + 1), hi(i) - lo(i) + 1)
                /\ w = 1 => last.ret[i + 1] = Fixed2(raw[i + 1], 1)

\* two rows smoothed with a window of 3: both rows average both values
WindowClippedAtBothEnds ==
  /\ last.op = "smoothed"
  /\ last.args = << <<0, 60>>, 3 >>
  /\ last.ret = << <<"3", "0", ".", "0", "0">>, <<"3", "0", ".", "0", "0">> >>

\* C26: in the oversteer column that add_oversteer_column adds to a table
\* with a rotation-speed column, row 0 is the formatted 0 and every row i > 0
\* the formatted sum rotation_speed[i] + gyro_z[i]; the rotation-speed and the
\* gyro-z column keep their values.
OversteerIsRowSum ==
  (/\ last.op = "add_oversteer_column" /\ Returned
   /\ ~pre.data.none /\ nval >= 1
   /\ last.args[3] \notin PreKeys /\ last.args[1] \in PreKeys)
    => /\ ~data.none
       /\ {last.args[1], last.args[2], last.args[3]} \subseteq Keys(data.cols)
       /\ Col(data.cols, last.args[1]) = Col(pre.data.cols, last.args[1])
       /\ Col(data.cols, last.args[2]) = Col(pre.data.cols, last.args[2])
       /\ LET oversteer == Col(data.cols, last.args[3])
              rotation_speed == Col(pre.data.cols, last.args[1])
              gyro_z == Col(pre.data.cols, last.args[2])
          IN  /\ Len(oversteer) = FirstLen(pre.data.cols)
              /\ Len(oversteer) >= 1
              /\ oversteer[1] = <<"0", "0", ".", "0", "0">>
              /\ \A i \in 2..Len(oversteer) :
                   oversteer[i] = format_heading(DecAdd(float(rotation_speed[i]), float(gyro_z[i])))

\* an oversteer column of two rows computed from an existing rotation-speed
\* column: row 0 is '00.00' although the gyro of row 0 is not 0, and row 1 is
\* not '00.00'
OversteerFromExistingRotation ==
  /\ last.op = "add_oversteer_column" /\ Returned
  /\ nval = 2 /\ ~pre.data.none
  /\ OVERSTEER \notin PreKeys /\ ROTATION \in PreKeys /\ GYRO \in PreKeys
  /\ OVERSTEER \in Keys(data.cols)
  /\ float(Col(pre.data.cols, GYRO)[1]) # Dec(0, 0)
  /\ Col(data.cols, OVERSTEER)[1] = <<"0", "0", ".", "0", "0">>
  /\ Col(data.cols, OVERSTEER)[2] # <<"0", "0", ".", "0", "0">>

\* C27: in the fuel-consumption average, every row included in the average of
\* a row i > 0 has a time within time_window_sec of the time of row i; the
\* included rows are the contiguous run j..i that the backward scan reaches
\* before the first row outside the window or row 0, and row i is included
\* when time_window_sec >= 0.
FuelAverageRowsWithinWindow ==
  last.op = "compute_fuel_consumption_avg"
    => LET time == last.args[2]
           time_window_sec == last.args[3]
           within(j, i) == Abs(hhmmsscc_to_milliseconds(time[j + 1]) - hhmmsscc_to_milliseconds(time[i + 1]))
                             <= time_window_sec * 1000
       IN  \A i \in 1..(Len(time) - 1) :
             LET rows == last.ret[i + 1][1]
             IN  /\ \A k \in DOMAIN rows : rows[k] = i - (k - 1)
                 /\ \A k \in DOMAIN rows : within(rows[k], i)
                 /\ Len(rows) = i + 1 \/ ~within(i - Len(rows), i)
                 /\ time_window_sec >= 0 => (rows # <<>> /\ rows[1] = i)


\* C28: add_avitime_column of functions/compute.py returns the data table; on
\* a table that already holds the 'avitime' column it returns that same table
\* unchanged, not None.
AddAvitimeColumnReturnsTable ==
  (last.op = "add_avitime_column" /\ last.exc = "")
    => /\ ~last.ret.none
       /\ AVITIME \in Keys(last.ret.cols)
       /\ AVITIME \in Keys(last.args[1]) => last.ret.cols = last.args[1]

\* the calls of add_avitime_column on a table without 'avitime' do return the
\* table, with the column added
AddAvitimeColumnAddsColumn ==
  (last.op = "add_avitime_column" /\ last.exc = "" /\ AVITIME \notin Keys(last.args[1]))
    => /\ ~last.ret.none
       /\ KeyList(last.ret.cols) = Append(KeyList(last.args[1]), AVITIME)


\* the keys of the data mapping in iteration order are the column-name list
InNameOrder(table, names) == ~table.none /\ KeyList(table.cols) = names

\* C29: the iteration order of the keys of the data mapping equals the order
\* of the column-name list after any sequence of successful additions and
\* removals: on a table with rows, a call that returned on a table whose keys
\* were in the order of the names leaves the keys in the order of the names.
KeyOrderIsColumnNameOrder ==
  (nval > 0 /\ Returned /\ InNameOrder(pre.data, pre.column_names))
    => InNameOrder(data, column_names)

\* the same for every call but add_computed_column with a compute function
\* that deletes a column
KeyOrderKeptByAddingFunctions ==
  (nval > 0 /\ Returned /\ InNameOrder(pre.data, pre.column_names)
     /\ ~(last.op = "add_computed_column" /\ last.args[2] = "replaces_first"))
    => InNameOrder(data, column_names)


\* C30: add_computed_column accepts the output of the compute function only
\* if it is the input table with exactly one additional column: when the call
\* returns, every column the data mapping had before the call is still in it
\* and one key is new, so that on a table whose names all had a column no
\* column name is left without a data column.
AcceptedOutputKeepsEveryColumn ==
  (last.op = "add_computed_column" /\ Returned)
    => /\ ~data.none
       /\ PreKeys \subseteq Keys(data.cols)
       /\ Cardinality(Keys(data.cols) \ PreKeys) = 1
       /\ Range(pre.column_names) \subseteq PreKeys => Range(column_names) \subseteq Keys(data.cols)

\* the part that holds: a call that returned found exactly one key that is
\* not a column name, and appended it to the column-name list
AcceptedOutputHasOneUnnamedKey ==
  (last.op = "add_computed_column" /\ Returned)
    => /\ ~data.none
       /\ Cardinality(Keys(data.cols) \ Range(pre.column_names)) = 1
       /\ Keys(data.cols) \ Range(pre.column_names) = {column_names[Len(column_names)]}

====
